---- MODULE Spec2Model ----
(***************************************************************************)
(* Fix Learn (Flix2030/Home): the study-session queue of StudySession and  *)
(* the entity store of App (decks, courses, folders, history) with its     *)
(* profile merge, modelled from src/fix-learn/App.tsx.                     *)
(*                                                                         *)
(* Strings that the code transforms (display names, member ids) are        *)
(* sequences of one-character strings.  A card's term and definition are   *)
(* naturals: the rank of the text in localeCompare order.  A JavaScript    *)
(* undefined / null is NoId for an id, NoIndex for an index and the record *)
(* Undefined for an object.                                                *)
(***************************************************************************)
EXTENDS Integers, Sequences, FiniteSets

\* ------------------------------------------------------------------ bounds
\* Number of cards of the deck that is studied.
NumCards == 3
\* Longest transcript a session may build (swipes are disabled beyond it).
MaxHistory == 2
\* Number of times StudySession may be mounted in one run.
MaxMounts == 2
\* Number of mid-session edits in one run.
MaxEdits == 1
\* Number of file reads that may be in flight at once.
MaxPending == 2
\* Number of file reads started in one run.
MaxImports == 2
\* Cards of the long deck, long enough for both re-insertion offsets to fall inside the queue.
LongCards == 22
\* Number of swipes in one run over the long deck, and how many of them are LEFT or UP.
MaxSwipes == 17
MaxRetries == 2

\* ------------------------------------------------------- program constants
\* const offset = 5 + Math.floor(Math.random() * 11)
RetryBase == 5
RandomSpan == 11
\* const offset = 20
HalfKnownOffset == 20

\* undefined / null, by the type of the value that is missing
Undefined == [undefined |-> TRUE]

\* useState<Message[]>([{ id: '1', role: 'model', text: 'Hallo! ...' }])
Greeting == [role |-> "model", text |-> <<"H">>]
NoId == "null"
\* let insertedAt: number | undefined = undefined
NoIndex == -1

VARIABLES
    currentUser,        \* App: the active user, or Undefined
    decks,              \* App: Deck[]
    courses,            \* App: Course[]
    folders,            \* App: Folder[]
    history,            \* App: HistoryEntry[]
    view,               \* App: 'dashboard' | 'deck-detail' | 'course-detail' | 'study' | 'create'
    activeDeckId,       \* App: string | null
    activeCourseId,     \* App: string | null
    studyCardIds,       \* App: string[] | undefined
    pending,            \* file reads started and not yet completed, each with its closure
    studyQueue,         \* StudySession: StudyCard[]
    sessionHistory,     \* StudySession: the transcript
    correctCount,       \* StudySession
    totalSessionCards,  \* StudySession
    isShuffle,          \* StudySession
    localSession,       \* localStorage['vocabflow_session_<deckId>'], per deck id
    last,               \* the operation that produced this state (observation only)
    trail,              \* the states before the swipes not yet undone (observation only)
    mounts,             \* how often StudySession was mounted (bounds the run)
    edits,              \* how many mid-session edits were saved (bounds the run)
    imports,            \* how many file reads and requests were started (bounds the run)
    isGenerating,       \* DeckCreator, while it is mounted (view 'create')
    messages,           \* ChatBot: Message[]
    input,              \* ChatBot: the text field
    isTyping            \* ChatBot

storeVars == <<currentUser, decks, courses, folders, history>>
navVars == <<view, activeDeckId, activeCourseId, studyCardIds>>
sessionVars == <<studyQueue, sessionHistory, correctCount, totalSessionCards, isShuffle>>
obsVars == <<last, trail>>
capVars == <<mounts, edits, imports>>
chatVars == <<messages, input, isTyping>>
assistVars == <<isGenerating, chatVars>>
vars == <<storeVars, navVars, pending, sessionVars, localSession, obsVars, capVars, assistVars>>

\* ----------------------------------------------------------------- helpers
Min(a, b) == IF a <= b THEN a ELSE b
Max(a, b) == IF a >= b THEN a ELSE b

Range(s) == {s[i] : i \in 1..Len(s)}

\* Array.prototype.filter is SelectSeq of Sequences.

\* Array.prototype.findIndex on the id field, 1-based; 0 when there is none (-1 in the code)
FindIndexById(s, id) ==
    IF \E i \in 1..Len(s) : s[i].id = id
    THEN CHOOSE i \in 1..Len(s) : s[i].id = id /\ \A j \in 1..(i - 1) : s[j].id # id
    ELSE 0

\* A splice that adds nothing.
DropInserted(s, at, x) == s

\* A splice that always adds at the end.
InsertAtEnd(s, at, x) == Append(s, x)

\* newQueue.splice(at, 0, x), at counted from 0
InsertAt(s, at, x) == SubSeq(s, 1, at) \o <<x>> \o SubSeq(s, at + 1, Len(s))

\* newQueue.splice(i - 1, 1), i counted from 1
RemoveAt(s, i) == SubSeq(s, 1, i - 1) \o SubSeq(s, i + 1, Len(s))

\* Every order [...cards].sort(() => Math.random() - 0.5) can produce
RECURSIVE ShuffleOrders(_)
ShuffleOrders(s) ==
    IF s = <<>> THEN {<<>>}
    ELSE UNION {{<<s[i]>> \o p : p \in ShuffleOrders(RemoveAt(s, i))} : i \in 1..Len(s)}

\* remaining.sort((a, b) => a.term.localeCompare(b.term)): Array.prototype.sort is stable
RECURSIVE SortByTerm(_)
SortByTerm(s) ==
    IF Len(s) <= 1 THEN s
    ELSE LET r == SortByTerm(SubSeq(s, 1, Len(s) - 1))
             x == s[Len(s)]
             k == Cardinality({i \in 1..Len(r) : r[i].term <= x.term})
         IN SubSeq(r, 1, k) \o <<x>> \o SubSeq(r, k + 1, Len(r))

\* ------------------------------------------------------------ the universe
CardNames == <<"A", "B", "C", "D", "E", "F">>
DeckIds == {"d1", "d2", "d3", "d4"}
StudyUser == [id |-> <<"u">>, name |-> <<"U">>]

\* A Flashcard.  StudyCard adds isRetry, absent (FALSE here) on a deck's card.
Card(i, term) ==
    [id |-> CardNames[i], term |-> term, definition |-> 0, status |-> "new", isRetry |-> FALSE]

\* The deck under study: NumCards cards whose deck order is not their term order.
StudyDeck == [id |-> "d1", authorId |-> StudyUser.id, name |-> "n1",
              cards |-> [i \in 1..NumCards |-> Card(i, NumCards + 1 - i)]]

\* Values the edit dialog's fields may hold when saved.
EditTerms == {1, NumCards + 1}
EditDefinitions == {1}

\* ----------------------------------------------------------- derived state
\* const userDecks = currentUser ? decks.filter(d => d.authorId === currentUser.id) : []
userDecks ==
    IF currentUser = Undefined THEN <<>>
    ELSE LET mine(d) == d.authorId = currentUser.id IN SelectSeq(decks, mine)

\* const activeDeck = userDecks.find(d => d.id === activeDeckId)
activeDeck ==
    LET i == FindIndexById(userDecks, activeDeckId)
    IN IF i = 0 THEN Undefined ELSE userDecks[i]

\* {view === 'study' && activeDeck && <StudySession .../>}
SessionMounted == view = "study" /\ activeDeck # Undefined

\* ===================================================== Study Queue Engine
\* What the persistence effect writes under SESSION_KEY.
SessionRecord(deckId, q, h, c, t) ==
    [deckId |-> deckId, queue |-> q, history |-> h, correctCount |-> c, totalSessionCards |-> t]

\* A start that ignores the selection.
WholeDeck(deck, cardIds) == deck.cards

\* let cardsToLearn = deck.cards; if (initialCardIds && initialCardIds.length > 0) ...
CardsToLearn(deck, cardIds) ==
    IF cardIds # Undefined /\ cardIds.ids # {}
    THEN LET chosen(c) == c.id \in cardIds.ids IN SelectSeq(deck.cards, chosen)
    ELSE deck.cards

\* useState<StudyCard[]>(() => ...): the queues the initializer may return
InitialQueues(deck, cardIds, saved) ==
    IF saved # Undefined /\ saved.deckId = deck.id /\ Len(saved.queue) > 0
    THEN {saved.queue}
    ELSE ShuffleOrders(CardsToLearn(deck, cardIds))

\* useState(() => ...) of sessionHistory: parsed.history || []
InitialHistory(deck, saved) ==
    IF saved # Undefined /\ saved.deckId = deck.id THEN saved.history ELSE <<>>

\* useState(() => ...) of correctCount: parsed.correctCount || 0
InitialCorrectCount(deck, saved) ==
    IF saved # Undefined /\ saved.deckId = deck.id THEN saved.correctCount ELSE 0

\* useState(() => ...) of totalSessionCards: parsed.totalSessionCards if truthy, else studyQueue.length
InitialTotal(saved, q) ==
    IF saved # Undefined /\ saved.totalSessionCards # 0 THEN saved.totalSessionCards ELSE Len(q)

\* A retry card that resurfaces one swipe earlier.
InsertOneEarlier(dir, n, r) ==
    IF dir = "LEFT" THEN Min(n, RetryBase - 1 + r)
    ELSE IF dir = "UP" THEN Min(n, HalfKnownOffset)
    ELSE NoIndex

\* An insertion that never goes behind the last card.
InsertBeforeLast(dir, n, r) ==
    IF dir = "LEFT" THEN Min(Max(n - 1, 0), RetryBase + r)
    ELSE IF dir = "UP" THEN Min(Max(n - 1, 0), HalfKnownOffset)
    ELSE NoIndex

\* insertedAt = Math.min(newQueue.length, offset); r is Math.floor(Math.random() * 11)
InsertPosition(dir, n, r) ==
    IF dir = "LEFT" THEN Min(n, RetryBase + r)
    ELSE IF dir = "UP" THEN Min(n, HalfKnownOffset)
    ELSE NoIndex

\* A swipe that counts every direction as known.
CountEverySwipe(c, dir) == c + 1

\* if (LEFT) {...} else if (UP) {...} else { setCorrectCount(prev => prev + 1) }
SwipeCorrectCount(c, dir) == IF dir \in {"LEFT", "UP"} THEN c ELSE c + 1

\* handleCardSwipe: the queue, transcript and correct-count it sets
HandleCardSwipe(q, h, c, dir, r) ==
    IF Len(q) = 0 THEN [queue |-> q, history |-> h, correctCount |-> c]
    ELSE LET currentCard == q[1]
             remainingQueue == Tail(q)
             retryCard == [currentCard EXCEPT !.isRetry = TRUE]
             insertedAt == InsertPosition(dir, Len(remainingQueue), r)
         IN [queue |-> IF dir \in {"LEFT", "UP"}
                       THEN InsertAt(remainingQueue, insertedAt, retryCard)
                       ELSE remainingQueue,
             history |-> Append(h, [card |-> currentCard, action |-> dir, insertedAt |-> insertedAt]),
             correctCount |-> SwipeCorrectCount(c, dir)]

\* handleUndo: the queue, transcript and correct-count it sets
HandleUndo(q, h, c) ==
    IF Len(h) = 0 THEN [queue |-> q, history |-> h, correctCount |-> c]
    ELSE LET lastAction == h[Len(h)]
             indexToRemove == FindIndexById(q, lastAction.card.id)
             kept == IF lastAction.insertedAt # NoIndex /\ indexToRemove # 0
                     THEN RemoveAt(q, indexToRemove)
                     ELSE q
         IN [queue |-> <<lastAction.card>> \o kept,
             history |-> SubSeq(h, 1, Len(h) - 1),
             correctCount |-> IF lastAction.action = "RIGHT" THEN Max(0, c - 1) ELSE c]

\* A restart that shuffles whatever the flag says.
RestartAlwaysShuffled(deck, cardIds, shuffle) == ShuffleOrders(CardsToLearn(deck, cardIds))

\* handleRestart: the queues it may set
RestartQueues(deck, cardIds, shuffle) ==
    IF shuffle THEN ShuffleOrders(CardsToLearn(deck, cardIds))
    ELSE {CardsToLearn(deck, cardIds)}

\* A toggle that reorders the whole queue, the active card included.
ToggleWholeQueue(q, newShuffleState) ==
    IF newShuffleState THEN ShuffleOrders(q) ELSE {SortByTerm(q)}

\* handleToggleShuffle: the queues it may set, newShuffleState being the flag after the toggle
ToggleQueues(q, newShuffleState) ==
    IF Len(q) > 1
    THEN {<<q[1]>> \o reordered :
            reordered \in (IF newShuffleState THEN ShuffleOrders(Tail(q)) ELSE {SortByTerm(Tail(q))})}
    ELSE {q}

\* handleUpdateCard: the deck collection with the card of that id replaced
HandleUpdateCard(ds, updatedCard) ==
    [k \in 1..Len(ds) |->
        IF \E i \in 1..Len(ds[k].cards) : ds[k].cards[i].id = updatedCard.id
        THEN [ds[k] EXCEPT !.cards =
                [i \in 1..Len(ds[k].cards) |->
                    IF ds[k].cards[i].id = updatedCard.id THEN updatedCard ELSE ds[k].cards[i]]]
        ELSE ds[k]]

\* The session state of a StudySession that is not mounted.
SessionIdle ==
    /\ studyQueue' = <<>>
    /\ sessionHistory' = <<>>
    /\ correctCount' = 0
    /\ totalSessionCards' = 0
    /\ isShuffle' = TRUE

\* useEffect(..., [studyQueue, sessionHistory, correctCount, deck.id, totalSessionCards])
Persist ==
    localSession' = [localSession EXCEPT ![activeDeckId] =
        SessionRecord(activeDeckId, studyQueue', sessionHistory', correctCount', totalSessionCards')]

Snapshot == [queue |-> studyQueue, history |-> sessionHistory, correctCount |-> correctCount]

\* openDeckDetail, from a deck tile of the dashboard
OpenDeckDetail(deckId) ==
    /\ currentUser # Undefined
    /\ view = "dashboard"
    /\ \E i \in 1..Len(userDecks) : userDecks[i].id = deckId
    /\ activeDeckId' = deckId
    /\ view' = "deck-detail"
    /\ last' = [op |-> "openDeckDetail"]
    /\ trail' = <<>>
    /\ UNCHANGED <<storeVars, activeCourseId, studyCardIds, pending, sessionVars, localSession>>
    /\ UNCHANGED capVars
    /\ UNCHANGED assistVars

\* DeckDetail.handleStartStudy -> startStudy(cardIds), and the mount of StudySession
StartStudy(cardIds) ==
    /\ view = "deck-detail"
    /\ activeDeck # Undefined
    /\ cardIds # Undefined => (cardIds.ids # {} /\ cardIds.ids \subseteq {c.id : c \in Range(activeDeck.cards)})
    /\ studyCardIds' = cardIds
    /\ view' = "study"
    /\ \E q \in InitialQueues(activeDeck, cardIds, localSession[activeDeckId]) :
          /\ studyQueue' = q
          /\ totalSessionCards' = InitialTotal(localSession[activeDeckId], q)
    /\ sessionHistory' = InitialHistory(activeDeck, localSession[activeDeckId])
    /\ correctCount' = InitialCorrectCount(activeDeck, localSession[activeDeckId])
    /\ isShuffle' = TRUE
    /\ Persist
    /\ last' = [op |-> "startStudy", persisted |-> localSession[activeDeckId] # Undefined]
    /\ trail' = <<>>
    /\ UNCHANGED <<storeVars, activeDeckId, activeCourseId, pending>>
    /\ mounts < MaxMounts
    /\ mounts' = mounts + 1
    /\ UNCHANGED <<edits, imports>>
    /\ UNCHANGED assistVars

\* FlashcardView.handleDragEnd -> handleCardSwipe(dir), and the persistence effect
SwipeStep(dir) ==
    /\ SessionMounted
    /\ \E res \in {HandleCardSwipe(studyQueue, sessionHistory, correctCount, dir, r) :
                        r \in 0..(RandomSpan - 1)} :
          /\ studyQueue' = res.queue
          /\ sessionHistory' = res.history
          /\ correctCount' = res.correctCount
    /\ UNCHANGED <<totalSessionCards, isShuffle>>
    /\ Persist
    /\ last' = [op |-> "swipe", dir |-> dir, empty |-> studyQueue = <<>>]
    /\ trail' = IF studyQueue = <<>> THEN trail ELSE Append(trail, Snapshot)
    /\ UNCHANGED <<storeVars, navVars, pending>>
    /\ UNCHANGED capVars
    /\ UNCHANGED assistVars

\* A swipe in a run of at most MaxHistory swipes not undone.
Swipe(dir) ==
    /\ Len(sessionHistory) < MaxHistory
    /\ SwipeStep(dir)

\* the undo button -> handleUndo
Undo ==
    /\ SessionMounted
    /\ LET res == HandleUndo(studyQueue, sessionHistory, correctCount) IN
          /\ studyQueue' = res.queue
          /\ sessionHistory' = res.history
          /\ correctCount' = res.correctCount
    /\ UNCHANGED <<totalSessionCards, isShuffle>>
    /\ Persist
    /\ last' = [op |-> "undo", empty |-> sessionHistory = <<>>, paired |-> trail # <<>>]
    /\ trail' = IF trail = <<>> THEN trail ELSE SubSeq(trail, 1, Len(trail) - 1)
    /\ UNCHANGED <<storeVars, navVars, pending>>
    /\ UNCHANGED capVars
    /\ UNCHANGED assistVars

\* handleRestart
Restart ==
    /\ SessionMounted
    /\ studyQueue' \in RestartQueues(activeDeck, studyCardIds, isShuffle)
    /\ sessionHistory' = <<>>
    /\ correctCount' = 0
    /\ UNCHANGED <<totalSessionCards, isShuffle>>
    /\ Persist
    /\ last' = [op |-> "restart"]
    /\ trail' = <<>>
    /\ UNCHANGED <<storeVars, navVars, pending>>
    /\ UNCHANGED capVars
    /\ UNCHANGED assistVars

\* handleToggleShuffle
ToggleShuffle ==
    /\ SessionMounted
    /\ isShuffle' = ~isShuffle
    /\ studyQueue' \in ToggleQueues(studyQueue, ~isShuffle)
    /\ UNCHANGED <<sessionHistory, correctCount, totalSessionCards>>
    /\ Persist
    /\ last' = [op |-> "toggleShuffle"]
    /\ trail' = <<>>
    /\ UNCHANGED <<storeVars, navVars, pending>>
    /\ UNCHANGED capVars
    /\ UNCHANGED assistVars

\* saveEdit, with the edit dialog's fields holding editTerm and editDef
SaveEdit(editTerm, editDef) ==
    /\ SessionMounted
    /\ Len(studyQueue) > 0
    /\ LET updatedCard == [studyQueue[1] EXCEPT !.term = editTerm, !.definition = editDef] IN
          /\ studyQueue' = [studyQueue EXCEPT ![1] = updatedCard]
          /\ decks' = HandleUpdateCard(decks, updatedCard)
    /\ UNCHANGED <<sessionHistory, correctCount, totalSessionCards, isShuffle>>
    /\ Persist
    /\ last' = [op |-> "saveEdit", term |-> editTerm, definition |-> editDef]
    /\ trail' = <<>>
    /\ UNCHANGED <<currentUser, courses, folders, history, navVars, pending>>
    /\ edits < MaxEdits
    /\ edits' = edits + 1
    /\ UNCHANGED <<mounts, imports>>
    /\ UNCHANGED assistVars

\* An exit that leaves the record in localStorage.
KeepItem(ls, deckId) == ls

\* localStorage.removeItem(SESSION_KEY)
RemoveItem(ls, deckId) == [ls EXCEPT ![deckId] = Undefined]

\* handleExit: localStorage.removeItem(SESSION_KEY); onBack()
Exit ==
    /\ SessionMounted
    /\ localSession' = RemoveItem(localSession, activeDeckId)
    /\ view' = "deck-detail"
    /\ SessionIdle
    /\ last' = [op |-> "exit"]
    /\ trail' = <<>>
    /\ UNCHANGED <<storeVars, activeDeckId, activeCourseId, studyCardIds, pending>>
    /\ UNCHANGED capVars
    /\ UNCHANGED assistVars

\* The header's home button, setView('dashboard'), or a reload: StudySession is
\* torn down and its record stays in localStorage.
Leave ==
    /\ SessionMounted
    /\ view' = "dashboard"
    /\ SessionIdle
    /\ last' = [op |-> "leave"]
    /\ trail' = <<>>
    /\ UNCHANGED <<storeVars, activeDeckId, activeCourseId, studyCardIds, pending, localSession>>
    /\ UNCHANGED capVars
    /\ UNCHANGED assistVars

\* A user in the deck's detail view, the deck not yet studied on this device.
InitSession ==
    /\ currentUser = StudyUser
    /\ decks = <<StudyDeck>>
    /\ courses = <<>>
    /\ folders = <<>>
    /\ history = <<>>
    /\ view = "deck-detail"
    /\ activeDeckId = StudyDeck.id
    /\ activeCourseId = NoId
    /\ studyCardIds = Undefined
    /\ pending = <<>>
    /\ studyQueue = <<>>
    /\ sessionHistory = <<>>
    /\ correctCount = 0
    /\ totalSessionCards = 0
    /\ isShuffle = TRUE
    /\ localSession = [d \in DeckIds |-> Undefined]
    /\ last = [op |-> "init"]
    /\ trail = <<>>
    /\ mounts = 0
    /\ edits = 0
    /\ imports = 0
    /\ isGenerating = FALSE
    /\ messages = <<Greeting>>
    /\ input = <<>>
    /\ isTyping = FALSE

\* What DeckDetail may pass to startStudy: undefined (study all) or a non-empty selection.
\* The selections tried are a leading part of the deck and its last card alone.
StudySelections ==
    {Undefined}
        \cup {[ids |-> {CardNames[i] : i \in 1..k}] : k \in 1..(NumCards - 1)}
        \cup {[ids |-> {CardNames[NumCards]}]}

NextSession ==
    \/ \E d \in DeckIds : OpenDeckDetail(d)
    \/ \E ids \in StudySelections : StartStudy(ids)
    \/ \E dir \in {"LEFT", "RIGHT", "UP"} : Swipe(dir)
    \/ Undo
    \/ Restart
    \/ ToggleShuffle
    \/ Exit
    \/ Leave

SessionSpec == InitSession /\ [][NextSession]_vars

\* ------------------------------------------------ the session as it is rendered
\* The card, the footer and the settings are rendered: neither early return is taken.
Studying == SessionMounted /\ studyQueue # <<>>

\* if (studyQueue.length === 0 && correctCount > 0) return <the finished screen>
Finished == SessionMounted /\ studyQueue = <<>> /\ correctCount > 0

\* if (studyQueue.length === 0) return <div>Lade Karten...</div>
Loading == SessionMounted /\ studyQueue = <<>> /\ ~(correctCount > 0)

\* <FlashcardView card={studyQueue[0]} onSwipe={handleCardSwipe} />
DragCard(dir) == Studying /\ Swipe(dir)

\* <button onClick={handleUndo} disabled={sessionHistory.length === 0}>
ClickUndo == Studying /\ sessionHistory # <<>> /\ Undo

\* <button onClick={handleRestart}> of the settings and of the finished screen
ClickRestart == (Studying \/ Finished) /\ Restart

\* <button onClick={handleToggleShuffle}> of the settings
ClickToggleShuffle == Studying /\ ToggleShuffle

\* <button onClick={saveEdit}> of the edit dialog, opened from the settings
ClickSaveEdit == Studying /\ \E t \in EditTerms, d \in EditDefinitions : SaveEdit(t, d)

\* <button onClick={handleExit}> of the footer and of the finished screen
ClickExit == (Studying \/ Finished) /\ Exit

NextStudy ==
    \/ \E d \in DeckIds : OpenDeckDetail(d)
    \/ \E ids \in StudySelections : StartStudy(ids)
    \/ \E dir \in {"LEFT", "RIGHT", "UP"} : DragCard(dir)
    \/ ClickUndo
    \/ ClickRestart
    \/ ClickToggleShuffle
    \/ ClickExit
    \/ Leave

StudySpec == InitSession /\ [][NextStudy]_vars

\* The header's home button and the exit button, used while the session may be mounted again.
LeaveToResume == mounts < MaxMounts /\ Leave
ExitToStartAgain == mounts < MaxMounts /\ ClickExit

\* A learner who goes on: as long as a control of the session, of the deck's detail view
\* or of the dashboard is on screen, one of them is used again.  The session has no
\* timer and no background step; every step is the learner's.
NextLearner ==
    \/ \E d \in DeckIds : OpenDeckDetail(d)
    \/ \E ids \in StudySelections : StartStudy(ids)
    \/ \E dir \in {"LEFT", "RIGHT", "UP"} : DragCard(dir)
    \/ ClickUndo
    \/ ClickRestart
    \/ ClickToggleShuffle
    \/ ExitToStartAgain
    \/ LeaveToResume

LearnerSpec == InitSession /\ [][NextLearner]_vars /\ WF_vars(NextLearner)

\* One mounted session with the edit dialog in use.
NextEdit ==
    \/ \E ids \in StudySelections : StartStudy(ids)
    \/ \E dir \in {"LEFT", "RIGHT", "UP"} : DragCard(dir)
    \/ ClickUndo
    \/ ClickRestart
    \/ ClickToggleShuffle
    \/ ClickSaveEdit

EditSpec == InitSession /\ [][NextEdit]_vars

\* ============================================================ Entity Store
\* What a handler's closure holds of the render it was created in.
Closure ==
    [currentUser |-> currentUser, decks |-> decks, courses |-> courses,
     folders |-> folders, history |-> history]

Ids(s) == {s[i].id : i \in 1..Len(s)}

\* A merge that pushes every incoming record.
AppendEvery(local, incoming) == local \o incoming

\* const mergedX = [...local]; incoming.forEach(x => { if (!mergedX.find(e => e.id === x.id)) mergedX.push(x) })
RECURSIVE AppendNewById(_, _)
AppendNewById(local, incoming) ==
    IF incoming = <<>> THEN local
    ELSE AppendNewById(
            IF FindIndexById(local, Head(incoming).id) = 0 THEN Append(local, Head(incoming)) ELSE local,
            Tail(incoming))

\* A course merge in which the local record wins.
KeepLocalCourse(local, incoming) == AppendNewById(local, incoming)

\* newCourses.forEach(c => { existingIndex === -1 ? mergedCourses.push(c) : mergedCourses[existingIndex] = c })
RECURSIVE ReplaceOrAppendById(_, _)
ReplaceOrAppendById(local, incoming) ==
    IF incoming = <<>> THEN local
    ELSE LET c == Head(incoming)
             existingIndex == FindIndexById(local, c.id)
         IN ReplaceOrAppendById(
                IF existingIndex = 0 THEN Append(local, c) ELSE [local EXCEPT ![existingIndex] = c],
                Tail(incoming))

\* A list argument of mergeData: present (a list) or undefined, on which forEach throws.
Given(list) == [given |-> TRUE, list |-> list]
Missing == [given |-> FALSE, list |-> <<>>]

\* mergeData, run in the closure cl on the store st: the collections it leaves set and
\* whether it threw.  It sets decks, courses, folders, history in this order; forEach
\* on a list that is undefined throws and the setters already called stay in effect.
MergeData(cl, st, newDecks, newCourses, newHistory, newFolders) ==
    LET mergedDecks == AppendNewById(cl.decks, newDecks.list)
        mergedCourses == ReplaceOrAppendById(cl.courses, newCourses.list)
        mergedFolders == AppendNewById(cl.folders, newFolders.list)
        mergedHistory == AppendNewById(cl.history, newHistory.list)
        stage == IF ~newDecks.given THEN 0
                 ELSE IF ~newCourses.given THEN 1
                 ELSE IF ~newFolders.given THEN 2
                 ELSE IF ~newHistory.given THEN 3
                 ELSE 4
    IN [decks |-> IF stage >= 1 THEN mergedDecks ELSE st.decks,
        courses |-> IF stage >= 2 THEN mergedCourses ELSE st.courses,
        folders |-> IF stage >= 3 THEN mergedFolders ELSE st.folders,
        history |-> IF stage >= 4 THEN mergedHistory ELSE st.history,
        threw |-> stage < 4]

\* A field of the parsed file: data.f when the file has it, else undefined.
Has(data, f) == f \in data.fields

\* A full-profile test that ignores the type discriminator.
HasUserAndDecks(data) == Has(data, "user") /\ Has(data, "decks")

\* data.user && Array.isArray(data.decks) && !data.type
IsFullProfile(data) == Has(data, "user") /\ Has(data, "decks") /\ ~Has(data, "type")

\* data.type === 'course_share' && data.course && Array.isArray(data.decks)
IsCourseShare(data) ==
    Has(data, "type") /\ data.type = "course_share" /\ Has(data, "course") /\ Has(data, "decks")

\* A course import that never joins the importer.
CourseAsShared(cl, course) == course

\* const courseToImport = { ...data.course }; if (currentUser && !memberIds.includes(currentUser.id)
\*   && courseToImport.authorId !== currentUser.id) courseToImport.memberIds.push(currentUser.id)
CourseToImport(cl, course) ==
    IF /\ cl.currentUser # Undefined
       /\ cl.currentUser.id \notin Range(course.memberIds)
       /\ course.authorId # cl.currentUser.id
    THEN [course EXCEPT !.memberIds = Append(@, cl.currentUser.id)]
    ELSE course

\* The lists reader.onload hands to mergeData for a file it accepts.
MergeArguments(cl, data) ==
    IF IsFullProfile(data)
    THEN [decks |-> Given(data.decks),
          courses |-> IF Has(data, "courses") THEN Given(data.courses) ELSE Missing,
          history |-> IF Has(data, "history") THEN Given(data.history) ELSE Missing,
          \* data.folders || []
          folders |-> IF Has(data, "folders") THEN Given(data.folders) ELSE Given(<<>>)]
    ELSE [decks |-> Given(data.decks),
          courses |-> Given(<<CourseToImport(cl, data.course)>>),
          history |-> Given(<<>>),
          folders |-> Given(<<>>)]

\* reader.onload of processProfileFile, in the closure cl, the user answering the
\* confirm dialog with ok: what happened, and the store and view it leaves.
OnProfileLoaded(cl, st, nav, data, ok) ==
    LET args == MergeArguments(cl, data)
        m == MergeData(cl, st, args.decks, args.courses, args.history, args.folders)
        same == [decks |-> st.decks, courses |-> st.courses, folders |-> st.folders,
                 history |-> st.history, currentUser |-> st.currentUser, view |-> nav]
        merged == [decks |-> m.decks, courses |-> m.courses, folders |-> m.folders,
                   history |-> m.history, currentUser |-> st.currentUser, view |-> nav]
    IN IF ~data.parses THEN [outcome |-> "error", to |-> same]
       ELSE IF IsFullProfile(data)
       THEN IF ~ok THEN [outcome |-> "cancelled", to |-> same]
            ELSE IF m.threw THEN [outcome |-> "error", to |-> merged]
            ELSE IF cl.currentUser = Undefined
            THEN [outcome |-> "restored",
                  to |-> [merged EXCEPT !.currentUser = data.user, !.view = "dashboard"]]
            ELSE [outcome |-> "merged", to |-> merged]
       ELSE IF IsCourseShare(data)
       THEN IF ~ok THEN [outcome |-> "cancelled", to |-> same]
            ELSE [outcome |-> "merged", to |-> merged]
       ELSE [outcome |-> "invalid", to |-> same]

\* A delete that leaves the folders alone.
DeleteKeepingFolders(ds, cs, fs, deckId) ==
    LET other(d) == d.id # deckId
        otherId(id) == id # deckId
    IN [decks |-> SelectSeq(ds, other),
        courses |-> [i \in 1..Len(cs) |-> [cs[i] EXCEPT !.deckIds = SelectSeq(@, otherId)]],
        folders |-> fs]

\* handleDeleteDeck: the collections it sets
HandleDeleteDeck(ds, cs, fs, deckId) ==
    LET other(d) == d.id # deckId
        otherId(id) == id # deckId
    IN [decks |-> SelectSeq(ds, other),
        courses |-> [i \in 1..Len(cs) |-> [cs[i] EXCEPT !.deckIds = SelectSeq(@, otherId)]],
        folders |-> [i \in 1..Len(fs) |-> [fs[i] EXCEPT !.deckIds = SelectSeq(@, otherId)]]]

\* const memberId = name.toLowerCase().replace(/\s+/g, '_')
UpperCase == <<"A", "B", "M">>
LowerCase == <<"a", "b", "m">>
ToLowerCase(ch) ==
    IF \E k \in 1..Len(UpperCase) : UpperCase[k] = ch
    THEN LowerCase[CHOOSE k \in 1..Len(UpperCase) : UpperCase[k] = ch]
    ELSE ch

IsSpace(ch) == ch \in {" ", "\t"}

RECURSIVE DropLeadingSpace(_)
DropLeadingSpace(s) ==
    IF s # <<>> /\ IsSpace(Head(s)) THEN DropLeadingSpace(Tail(s)) ELSE s

\* replace(/\s+/g, '_'): every maximal run of whitespace becomes one underscore
RECURSIVE ReplaceSpaceRuns(_)
ReplaceSpaceRuns(s) ==
    IF s = <<>> THEN <<>>
    ELSE IF IsSpace(Head(s)) THEN <<"_">> \o ReplaceSpaceRuns(DropLeadingSpace(Tail(s)))
    ELSE <<Head(s)>> \o ReplaceSpaceRuns(Tail(s))

\* An id with one underscore for every whitespace character.
UnderscorePerSpace(name) ==
    [i \in 1..Len(name) |-> IF IsSpace(name[i]) THEN "_" ELSE ToLowerCase(name[i])]

MemberIdOf(name) == ReplaceSpaceRuns([i \in 1..Len(name) |-> ToLowerCase(name[i])])

\* String.prototype.trim
RECURSIVE DropTrailingSpace(_)
DropTrailingSpace(s) ==
    IF s # <<>> /\ IsSpace(s[Len(s)]) THEN DropTrailingSpace(SubSeq(s, 1, Len(s) - 1)) ELSE s

Trim(s) == DropTrailingSpace(DropLeadingSpace(s))

\* handleAddMemberToCourse: the course collection it sets
HandleAddMemberToCourse(cs, courseId, name) ==
    LET memberId == MemberIdOf(name)
    IN [i \in 1..Len(cs) |->
          IF cs[i].id = courseId /\ memberId \notin Range(cs[i].memberIds)
          THEN [cs[i] EXCEPT !.memberIds = Append(@, memberId)]
          ELSE cs[i]]

\* const userCourses = currentUser ? courses.filter(c => c.authorId === currentUser.id
\*                                    || c.memberIds.includes(currentUser.id)) : []
userCourses ==
    IF currentUser = Undefined THEN <<>>
    ELSE LET mine(c) == c.authorId = currentUser.id \/ currentUser.id \in Range(c.memberIds)
         IN SelectSeq(courses, mine)

\* const activeCourse = userCourses.find(c => c.id === activeCourseId)
activeCourse ==
    LET i == FindIndexById(userCourses, activeCourseId)
    IN IF i = 0 THEN Undefined ELSE userCourses[i]

\* <CourseDetail decks={userDecks.filter(d => activeCourse.deckIds.includes(d.id))} />
courseDecks(ud, course) ==
    LET inCourse(d) == d.id \in Range(course.deckIds) IN SelectSeq(ud, inCourse)

\* ------------------------------------------------- the store's universe
U1 == [id |-> <<"a">>, name |-> <<"A">>]
U2 == [id |-> <<"b">>, name |-> <<"B">>]

Deck(id, authorId, name) == [id |-> id, authorId |-> authorId, name |-> name, cards |-> <<>>]
Course(id, authorId, name, memberIds, deckIds) ==
    [id |-> id, authorId |-> authorId, name |-> name, description |-> "Gemeinsames Lernen",
     memberIds |-> memberIds, deckIds |-> deckIds]
Folder(id, authorId, name, deckIds) ==
    [id |-> id, authorId |-> authorId, name |-> name, deckIds |-> deckIds]
HistoryEntry(id, userId, deckId, action) ==
    [id |-> id, userId |-> userId, deckId |-> deckId, deckName |-> "n", action |-> action]

\* The store this device holds at the start: two decks of U1, each in both courses and
\* in the folder.
LocalDecks == <<Deck("d1", U1.id, "local"), Deck("d2", U1.id, "local")>>
LocalCourses == <<Course("c1", U1.id, "local", <<>>, <<"d1", "d2">>),
                  Course("c2", U1.id, "local", <<>>, <<"d2", "d1">>)>>
LocalFolders == <<Folder("f1", U1.id, "local", <<"d1", "d2">>)>>
LocalHistory == <<HistoryEntry("h1", U1.id, "d1", "created")>>

\* Parsed import files.  fields lists the keys the file has.
NoData ==
    [parses |-> TRUE, fields |-> {}, type |-> "", user |-> Undefined, course |-> Undefined,
     decks |-> <<>>, courses |-> <<>>, folders |-> <<>>, history |-> <<>>]

\* A backup of U1's other device: d1, c1, f1, h1 collide with local records; d3, c3 and
\* h2 are repeated inside the file.
FullBackup ==
    [NoData EXCEPT
        !.fields = {"user", "decks", "courses", "folders", "history"},
        !.user = U1,
        !.decks = <<Deck("d1", U1.id, "backup"), Deck("d3", U1.id, "backup"), Deck("d3", U1.id, "backup2")>>,
        !.courses = <<Course("c1", U1.id, "backup", <<U2.id>>, <<"d1", "d3">>),
                      Course("c3", U1.id, "backup", <<>>, <<"d3">>),
                      Course("c3", U1.id, "backup2", <<>>, <<"d3", "d1">>)>>,
        !.folders = <<Folder("f1", U1.id, "backup", <<"d3">>), Folder("f2", U1.id, "backup", <<"d1">>)>>,
        !.history = <<HistoryEntry("h1", U1.id, "d1", "imported"),
                      HistoryEntry("h2", U1.id, "d3", "created"),
                      HistoryEntry("h2", U1.id, "d3", "imported")>>]

\* A later backup: another version of c1, which lists a deck (d9) the file does not
\* hold; exportFullProfile writes such a file for a course whose decks another user owns.
LaterBackup ==
    [NoData EXCEPT
        !.fields = {"user", "decks", "courses", "folders", "history"},
        !.user = U1,
        !.courses = <<Course("c1", U1.id, "later", <<>>, <<"d1", "d9">>)>>]

\* handleExportCourse's file for a course of U2.
SharedCourse ==
    [NoData EXCEPT
        !.fields = {"type", "course", "decks", "exportedBy"},
        !.type = "course_share",
        !.course = Course("c4", U2.id, "shared", <<>>, <<"d4">>),
        !.decks = <<Deck("d4", U2.id, "shared")>>]

\* handleExportCourse's file for a course of U2 that U1 is a member of already.
MemberShare ==
    [SharedCourse EXCEPT !.course = Course("c4", U2.id, "member", <<U2.id, U1.id>>, <<"d4">>)]

\* handleExportCourse's file for a course of U1.
OwnShare ==
    [SharedCourse EXCEPT !.course = Course("c2", U1.id, "own", <<U2.id>>, <<"d4">>)]

\* A file that passes the full-profile test and has no courses list.
BackupWithoutCourses ==
    [NoData EXCEPT
        !.fields = {"user", "decks", "folders", "history"},
        !.user = U1,
        !.decks = <<Deck("d3", U1.id, "partial")>>]

\* A single deck's export, given to the profile import.
NotABundle == [NoData EXCEPT !.fields = {"id", "name", "cards"}]

\* A backup that carries a type discriminator.
TypedBackup ==
    [NoData EXCEPT
        !.fields = {"user", "decks", "courses", "folders", "history", "type"},
        !.type = "backup",
        !.user = U1,
        !.decks = <<Deck("d3", U1.id, "typed")>>]

\* A course share that lost its course.
ShareWithoutCourse ==
    [NoData EXCEPT
        !.fields = {"type", "decks", "exportedBy"},
        !.type = "course_share",
        !.decks = <<Deck("d4", U2.id, "shared")>>]

\* A file on which JSON.parse throws.
Unparseable == [NoData EXCEPT !.parses = FALSE]

ImportFiles ==
    {FullBackup, LaterBackup, SharedCourse, BackupWithoutCourses, NotABundle,
     TypedBackup, ShareWithoutCourse, Unparseable, MemberShare, OwnShare}

\* Names typed into the add-member form.
AnnaMusterfrau == <<"A", "n", "n", "a", " ", "M", "u", "s", "t", "e", "r", "f", "r", "a", "u">>
AnnaSpaced == <<" ", "a", "n", "n", "a", " ", "\t", "M", "u", "s", "t", "e", "r", "f", "r", "a", "u", " ">>
DisplayNames == {AnnaMusterfrau, AnnaSpaced, <<"B">>, <<" ">>}

\* ------------------------------------------------------ the store's actions
Store == [currentUser |-> currentUser, decks |-> decks, courses |-> courses,
          folders |-> folders, history |-> history]

\* The requests of a DeckCreator that was unmounted: their finally block sets the state
\* of a component that is gone.
Orphaned(p) ==
    [i \in 1..Len(p) |-> IF p[i].kind = "generate" THEN [p[i] EXCEPT !.live = FALSE] ELSE p[i]]

\* {view === 'create' && <DeckCreator .../>}: the DeckCreator lives while the view is
\* 'create'; p is the list of requests in flight after this step.
CreatorFollows(p) ==
    /\ pending' = IF view' = "create" THEN p ELSE Orphaned(p)
    /\ isGenerating' = IF view' = "create" THEN isGenerating ELSE FALSE

\* openCourseDetail, from a course tile of the dashboard
OpenCourseDetail(courseId) ==
    /\ currentUser # Undefined
    /\ view = "dashboard"
    /\ \E i \in 1..Len(userCourses) : userCourses[i].id = courseId
    /\ activeCourseId' = courseId
    /\ view' = "course-detail"
    /\ last' = [op |-> "openCourseDetail"]
    /\ UNCHANGED <<storeVars, activeDeckId, studyCardIds, pending, sessionVars, localSession, trail, capVars>>
    /\ UNCHANGED assistVars

\* onBack of DeckDetail and CourseDetail, onCancel of DeckCreator: setView('dashboard')
BackToDashboard ==
    /\ currentUser # Undefined
    /\ view \in {"deck-detail", "course-detail", "create"}
    /\ view' = "dashboard"
    /\ last' = [op |-> "back"]
    /\ CreatorFollows(pending)
    /\ UNCHANGED <<storeVars, activeDeckId, activeCourseId, studyCardIds, sessionVars,
                   localSession, trail, capVars, chatVars>>

\* DeckDetail's delete button: handleDeleteDeck(activeDeck.id)
DeleteDeck ==
    /\ view = "deck-detail"
    /\ activeDeck # Undefined
    /\ LET deckId == activeDeck.id
           res == HandleDeleteDeck(decks, courses, folders, deckId)
       IN /\ decks' = res.decks
          /\ courses' = res.courses
          /\ folders' = res.folders
          /\ IF activeDeckId = deckId
             THEN view' = "dashboard" /\ activeDeckId' = NoId
             ELSE UNCHANGED <<view, activeDeckId>>
          /\ last' = [op |-> "deleteDeck", deckId |-> deckId]
    /\ UNCHANGED <<currentUser, history, activeCourseId, studyCardIds, pending, sessionVars,
                   localSession, trail, capVars>>
    /\ UNCHANGED assistVars

\* CourseDetail.handleAddMember: if (newMemberName.trim()) onAddMember(course.id, newMemberName.trim())
AddMember(newMemberName) ==
    /\ view = "course-detail"
    /\ activeCourse # Undefined
    /\ Trim(newMemberName) # <<>>
    /\ courses' = HandleAddMemberToCourse(courses, activeCourse.id, Trim(newMemberName))
    /\ last' = [op |-> "addMember", courseId |-> activeCourse.id, name |-> Trim(newMemberName)]
    /\ UNCHANGED <<currentUser, decks, folders, history, navVars, pending, sessionVars,
                   localSession, trail, capVars>>
    /\ UNCHANGED assistVars

\* processProfileFile(file): reader.readAsText(file) with onload holding this render's closure
StartImport(data) ==
    /\ Len(pending) < MaxPending
    /\ imports < MaxImports
    /\ pending' = Append(pending, [kind |-> "profile", data |-> data, closure |-> Closure])
    /\ imports' = imports + 1
    /\ UNCHANGED <<storeVars, navVars, sessionVars, localSession, obsVars, mounts, edits>>
    /\ UNCHANGED assistVars

\* reader.onload of the i-th pending read, the user answering the confirm dialog with ok
FinishImport(i, ok) ==
    /\ i \in 1..Len(pending)
    /\ pending[i].kind = "profile"
    /\ LET p == pending[i]
           res == OnProfileLoaded(p.closure, Store, view, p.data, ok)
       IN /\ currentUser' = res.to.currentUser
          /\ decks' = res.to.decks
          /\ courses' = res.to.courses
          /\ folders' = res.to.folders
          /\ history' = res.to.history
          /\ view' = res.to.view
          /\ last' = [op |-> "import", data |-> p.data, outcome |-> res.outcome,
                      by |-> p.closure.currentUser,
                      newCourses |-> IF res.outcome \in {"merged", "restored"}
                                     THEN MergeArguments(p.closure, p.data).courses.list
                                     ELSE <<>>,
                      again |-> /\ last.op = "import"
                                /\ last.outcome \in {"merged", "restored", "error"}
                                /\ last.data = p.data
                                /\ p.closure = Closure]
    /\ CreatorFollows(RemoveAt(pending, i))
    /\ UNCHANGED <<activeDeckId, activeCourseId, studyCardIds, sessionVars, localSession, trail, capVars>>
    /\ UNCHANGED chatVars

\* crypto.randomUUID(): an id that nothing in the store, in a file being read or in a
\* closure still alive carries, and that differs from the ids in taken.
FreshIds == <<"x1", "x2", "x3", "x4", "x5", "x6">>

IdsInUse ==
    Ids(decks) \cup Ids(history)
        \cup UNION {Ids(pending[i].closure.decks) \cup Ids(pending[i].closure.history) : i \in 1..Len(pending)}
        \cup {pending[i].data.id : i \in {k \in 1..Len(pending) : pending[k].kind = "deck"}}

RandomUUID(taken) ==
    FreshIds[CHOOSE k \in 1..Len(FreshIds) :
                /\ FreshIds[k] \notin IdsInUse \cup taken
                /\ \A j \in 1..(k - 1) : FreshIds[j] \in IdsInUse \cup taken]

\* addToHistory in the closure cl: setHistory(prev => [newEntry, ...prev]), nothing without a user
AddToHistory(cl, h, id, deckId, action) ==
    IF cl.currentUser = Undefined THEN h
    ELSE <<HistoryEntry(id, cl.currentUser.id, deckId, action)>> \o h

\* Single-deck export files: one whose id a backup also carries, one whose id is local.
DeckFiles == {Deck("d3", U2.id, "file"), Deck("d1", U2.id, "file")}

\* reader.onload of handleImportDeck in the closure cl on the current decks ds: the
\* collision test reads the closure's decks, setDecks(prev => [...prev, importedDeck])
\* appends to the current ones.
OnDeckLoaded(cl, ds, importedDeck, uuid) ==
    LET renamed == IF \E k \in 1..Len(cl.decks) : cl.decks[k].id = importedDeck.id
                   THEN [importedDeck EXCEPT !.id = uuid]
                   ELSE importedDeck
        owned == IF cl.currentUser # Undefined
                 THEN [renamed EXCEPT !.authorId = cl.currentUser.id]
                 ELSE renamed
    IN [deck |-> owned, decks |-> Append(ds, owned)]

\* handleCreateDeck in the closure cl: setDecks([...decks, newDeck])
HandleCreateDeck(cl, newDeck) ==
    LET owned == IF cl.currentUser # Undefined
                 THEN [newDeck EXCEPT !.authorId = cl.currentUser.id]
                 ELSE newDeck
    IN [deck |-> owned, decks |-> Append(cl.decks, owned)]

\* handleImportDeck(file): reader.readAsText(file), from the dashboard's import button
StartImportDeck(file) ==
    /\ currentUser # Undefined
    /\ view = "dashboard"
    /\ Len(pending) < MaxPending
    /\ imports < MaxImports
    /\ pending' = Append(pending, [kind |-> "deck", data |-> file, closure |-> Closure])
    /\ imports' = imports + 1
    /\ UNCHANGED <<storeVars, navVars, sessionVars, localSession, obsVars, mounts, edits>>
    /\ UNCHANGED assistVars

\* reader.onload of handleImportDeck for the i-th pending read
FinishImportDeck(i) ==
    /\ i \in 1..Len(pending)
    /\ pending[i].kind = "deck"
    /\ LET p == pending[i]
           uuid == RandomUUID({})
           res == OnDeckLoaded(p.closure, decks, p.data, uuid)
       IN /\ decks' = res.decks
          /\ history' = AddToHistory(p.closure, history, RandomUUID({res.deck.id}), res.deck.id, "imported")
          /\ last' = [op |-> "importDeck", deck |-> res.deck, before |-> p.closure.decks]
    /\ pending' = RemoveAt(pending, i)
    /\ UNCHANGED <<currentUser, courses, folders, navVars, sessionVars, localSession, trail, capVars>>
    /\ UNCHANGED assistVars

\* the dashboard's new-set button: setView('create')
OpenCreate ==
    /\ currentUser # Undefined
    /\ view = "dashboard"
    /\ view' = "create"
    /\ last' = [op |-> "openCreate"]
    /\ UNCHANGED <<storeVars, activeDeckId, activeCourseId, studyCardIds, pending, sessionVars,
                   localSession, trail, capVars>>
    /\ isGenerating' = FALSE
    /\ UNCHANGED chatVars

\* DeckCreator.handleGenerate up to its await; onDeckCreated is this render's handleCreateDeck
StartGenerate ==
    /\ currentUser # Undefined
    /\ view = "create"
    /\ ~isGenerating
    /\ Len(pending) < MaxPending
    /\ imports < MaxImports
    /\ isGenerating' = TRUE
    /\ pending' = Append(pending, [kind |-> "generate", data |-> [name |-> "generated"],
                                   closure |-> Closure, live |-> TRUE])
    /\ imports' = imports + 1
    /\ UNCHANGED <<storeVars, navVars, sessionVars, localSession, obsVars, mounts, edits, chatVars>>

\* DeckCreator.handleGenerate after its await: onDeckCreated(newDeck), or the catch
FinishGenerate(i, ok) ==
    /\ i \in 1..Len(pending)
    /\ pending[i].kind = "generate"
    /\ LET p == pending[i]
           newDeck == Deck(RandomUUID({}), p.closure.currentUser.id, p.data.name)
           res == HandleCreateDeck(p.closure, newDeck)
       IN IF ok
          THEN /\ decks' = res.decks
               /\ history' = AddToHistory(p.closure, history, RandomUUID({newDeck.id}), newDeck.id, "created")
               /\ view' = "dashboard"
               /\ last' = [op |-> "createDeck", deck |-> res.deck, before |-> p.closure.decks]
               /\ CreatorFollows(RemoveAt(pending, i))
          ELSE /\ UNCHANGED <<decks, history, view>>
               /\ last' = [op |-> "generateFailed"]
               /\ pending' = RemoveAt(pending, i)
               /\ isGenerating' = IF p.live THEN FALSE ELSE isGenerating
    /\ UNCHANGED <<currentUser, courses, folders, activeDeckId, activeCourseId, studyCardIds,
                   sessionVars, localSession, trail, capVars, chatVars>>

\* The device's store as loaded from localStorage, with U1 logged in or nobody.
Init ==
    /\ currentUser \in {U1, Undefined}
    /\ decks = LocalDecks
    /\ courses = LocalCourses
    /\ folders = LocalFolders
    /\ history = LocalHistory
    /\ view = "dashboard"
    /\ activeDeckId = NoId
    /\ activeCourseId = NoId
    /\ studyCardIds = Undefined
    /\ pending = <<>>
    /\ studyQueue = <<>>
    /\ sessionHistory = <<>>
    /\ correctCount = 0
    /\ totalSessionCards = 0
    /\ isShuffle = TRUE
    /\ localSession = [d \in DeckIds |-> Undefined]
    /\ last = [op |-> "init"]
    /\ trail = <<>>
    /\ mounts = 0
    /\ edits = 0
    /\ imports = 0
    /\ isGenerating = FALSE
    /\ messages = <<Greeting>>
    /\ input = <<>>
    /\ isTyping = FALSE

Next ==
    \/ \E d \in DeckIds : OpenDeckDetail(d)
    \/ \E c \in {"c1", "c2", "c3", "c4"} : OpenCourseDetail(c)
    \/ BackToDashboard
    \/ DeleteDeck
    \/ \E data \in ImportFiles : StartImport(data)
    \/ \E i \in 1..MaxPending, ok \in BOOLEAN : FinishImport(i, ok)
    \/ \E file \in DeckFiles : StartImportDeck(file)
    \/ \E i \in 1..MaxPending : FinishImportDeck(i)
    \/ OpenCreate
    \/ StartGenerate
    \/ \E i \in 1..MaxPending, ok \in BOOLEAN : FinishGenerate(i, ok)

Spec == Init /\ [][Next]_vars

\* ------------------------------------------------------------------- login
\* The characters that replace(/[^a-z0-9]/g, '') keeps.
IdChars ==
    {"a", "b", "c", "d", "e", "f", "g", "h", "i", "j", "k", "l", "m", "n", "o", "p", "q", "r",
     "s", "t", "u", "v", "w", "x", "y", "z", "0", "1", "2", "3", "4", "5", "6", "7", "8", "9"}

IsIdChar(ch) == ch \in IdChars

\* id: loginIdentifier.toLowerCase().replace(/[^a-z0-9]/g, '')
LoginIdOf(loginIdentifier) ==
    SelectSeq([i \in 1..Len(loginIdentifier) |-> ToLowerCase(loginIdentifier[i])], IsIdChar)

\* const name = isEmail ? loginIdentifier.split('@')[0] : loginIdentifier
LoginNameOf(loginIdentifier) ==
    IF \E i \in 1..Len(loginIdentifier) : loginIdentifier[i] = "@"
    THEN SubSeq(loginIdentifier, 1,
                (CHOOSE i \in 1..Len(loginIdentifier) :
                    loginIdentifier[i] = "@" /\ \A j \in 1..(i - 1) : loginIdentifier[j] # "@") - 1)
    ELSE loginIdentifier

\* What may be typed into the login form: the display names and an e-mail address.
LoginIdentifiers == DisplayNames \cup {<<"B", "@", "m">>}

\* LoginScreen.handleSubmit (login form) -> handleLogin(user)
Login(loginIdentifier) ==
    /\ currentUser = Undefined
    /\ Trim(loginIdentifier) # <<>>
    /\ currentUser' = [id |-> LoginIdOf(loginIdentifier), name |-> LoginNameOf(loginIdentifier)]
    /\ view' = "dashboard"
    /\ CreatorFollows(pending)
    /\ last' = [op |-> "login", loginIdentifier |-> loginIdentifier]
    /\ UNCHANGED <<decks, courses, folders, history, activeDeckId, activeCourseId, studyCardIds,
                   sessionVars, localSession, trail, capVars, chatVars>>

\* handleLogout
Logout ==
    /\ currentUser # Undefined
    /\ currentUser' = Undefined
    /\ view' = "dashboard"
    /\ CreatorFollows(pending)
    /\ last' = [op |-> "logout"]
    /\ UNCHANGED <<decks, courses, folders, history, activeDeckId, activeCourseId, studyCardIds,
                   sessionVars, localSession, trail, capVars, chatVars>>

\* Course membership and the login form: a member is added by name and a user logs in by name.
NextLogin ==
    \/ \E c \in {"c1", "c2"} : OpenCourseDetail(c)
    \/ BackToDashboard
    \/ \E newMemberName \in DisplayNames : AddMember(newMemberName)
    \/ \E loginIdentifier \in LoginIdentifiers : Login(loginIdentifier)
    \/ Logout

LoginSpec == Init /\ [][NextLogin]_vars

\* ------------------------------------------------------- assistant requests
\* What the text field of the assistant may hold.
ChatTexts == {<<>>, <<" ">>, <<"q">>, <<"r">>}

\* What chatWithAi resolves to: an answer or, when the call failed, the canned apology.
ChatReplies == {<<"a">>, <<"s">>}

\* ChatBot.handleSend up to its await
HandleSend(by) ==
    /\ IF Trim(input) = <<>>
       THEN /\ UNCHANGED <<messages, input, isTyping, pending, imports>>
            /\ last' = [op |-> "send", by |-> by, sent |-> FALSE]
       ELSE /\ Len(pending) < MaxPending
            /\ imports < MaxImports
            /\ messages' = Append(messages, [role |-> "user", text |-> input])
            /\ input' = <<>>
            /\ isTyping' = TRUE
            /\ pending' = Append(pending, [kind |-> "chat", data |-> [text |-> input, history |-> messages],
                                           closure |-> Closure])
            /\ imports' = imports + 1
            /\ last' = [op |-> "send", by |-> by, sent |-> TRUE]
    /\ UNCHANGED <<storeVars, navVars, sessionVars, localSession, trail, mounts, edits, isGenerating>>

\* <input value={input} onChange={(e) => setInput(e.target.value)} />
TypeInput(text) ==
    /\ text # input
    /\ input' = text
    /\ last' = [op |-> "type"]
    /\ UNCHANGED <<storeVars, navVars, pending, sessionVars, localSession, trail, capVars,
                   isGenerating, messages, isTyping>>

\* <button onClick={handleSend} disabled={!input.trim() || isTyping}>
ClickSend == ~(Trim(input) = <<>> \/ isTyping) /\ HandleSend("click")

\* onKeyDown={(e) => e.key === 'Enter' && handleSend()}
PressEnter == HandleSend("enter")

\* ChatBot.handleSend after its await, chatWithAi having resolved to reply
FinishChat(i, reply) ==
    /\ i \in 1..Len(pending)
    /\ pending[i].kind = "chat"
    /\ messages' = Append(messages, [role |-> "model", text |-> reply])
    /\ isTyping' = FALSE
    /\ pending' = RemoveAt(pending, i)
    /\ last' = [op |-> "reply"]
    /\ UNCHANGED <<storeVars, navVars, sessionVars, localSession, trail, capVars, isGenerating, input>>

\* The assistant window and the deck creator, the two places that start a request.
NextAssist ==
    \/ \E text \in ChatTexts : TypeInput(text)
    \/ ClickSend
    \/ PressEnter
    \/ \E i \in 1..MaxPending, reply \in ChatReplies : FinishChat(i, reply)
    \/ OpenCreate
    \/ BackToDashboard
    \/ StartGenerate
    \/ \E i \in 1..MaxPending, ok \in BOOLEAN : FinishGenerate(i, ok)

AssistSpec == Init /\ [][NextAssist]_vars

\* Course membership on its own: the course views and the add-member form.
NextMember ==
    \/ \E c \in {"c1", "c2"} : OpenCourseDetail(c)
    \/ BackToDashboard
    \/ \E newMemberName \in DisplayNames : AddMember(newMemberName)

MemberSpec == Init /\ [][NextMember]_vars

\* ------------------------------------------- the worked example of the spec
\* Deck [A, B, C, D, E], terms in deck order.
ExampleDeck == [id |-> "d1", authorId |-> StudyUser.id, name |-> "n1",
                cards |-> <<Card(1, 1), Card(2, 2), Card(3, 3), Card(4, 4), Card(5, 5)>>]

\* A mounted session over ExampleDeck whose queue is the deck in deck order, shuffle
\* off: the state after handleRestart with isShuffle false.
InitExample ==
    /\ currentUser = StudyUser
    /\ decks = <<ExampleDeck>>
    /\ courses = <<>>
    /\ folders = <<>>
    /\ history = <<>>
    /\ view = "study"
    /\ activeDeckId = ExampleDeck.id
    /\ activeCourseId = NoId
    /\ studyCardIds = Undefined
    /\ pending = <<>>
    /\ studyQueue = ExampleDeck.cards
    /\ sessionHistory = <<>>
    /\ correctCount = 0
    /\ totalSessionCards = Len(ExampleDeck.cards)
    /\ isShuffle = FALSE
    /\ localSession = [d \in DeckIds |->
            IF d = ExampleDeck.id
            THEN SessionRecord(d, ExampleDeck.cards, <<>>, 0, Len(ExampleDeck.cards))
            ELSE Undefined]
    /\ last = [op |-> "restart"]
    /\ trail = <<>>
    /\ mounts = MaxMounts
    /\ edits = 0
    /\ imports = 0
    /\ isGenerating = FALSE
    /\ messages = <<Greeting>>
    /\ input = <<>>
    /\ isTyping = FALSE

NextExample ==
    \/ \E dir \in {"LEFT", "RIGHT", "UP"} : Swipe(dir)
    \/ Undo
    \/ Restart
    \/ ToggleShuffle

ExampleSpec == InitExample /\ [][NextExample]_vars

\* ----------------------------------------------------------- the long deck
LongNames ==
    <<"k01", "k02", "k03", "k04", "k05", "k06", "k07", "k08", "k09", "k10", "k11", "k12",
      "k13", "k14", "k15", "k16", "k17", "k18", "k19", "k20", "k21", "k22", "k23", "k24">>

LongDeck == [id |-> "d1", authorId |-> StudyUser.id, name |-> "n1",
             cards |-> [i \in 1..LongCards |-> [Card(1, i) EXCEPT !.id = LongNames[i]]]]

\* A mounted session over LongDeck whose queue is the deck in deck order, shuffle off:
\* the state after handleRestart with isShuffle false.
InitLong ==
    /\ currentUser = StudyUser
    /\ decks = <<LongDeck>>
    /\ courses = <<>>
    /\ folders = <<>>
    /\ history = <<>>
    /\ view = "study"
    /\ activeDeckId = LongDeck.id
    /\ activeCourseId = NoId
    /\ studyCardIds = Undefined
    /\ pending = <<>>
    /\ studyQueue = LongDeck.cards
    /\ sessionHistory = <<>>
    /\ correctCount = 0
    /\ totalSessionCards = Len(LongDeck.cards)
    /\ isShuffle = FALSE
    /\ localSession = [d \in DeckIds |->
            IF d = LongDeck.id
            THEN SessionRecord(d, LongDeck.cards, <<>>, 0, Len(LongDeck.cards))
            ELSE Undefined]
    /\ last = [op |-> "restart"]
    /\ trail = <<>>
    /\ mounts = MaxMounts
    /\ edits = 0
    /\ imports = 0
    /\ isGenerating = FALSE
    /\ messages = <<Greeting>>
    /\ input = <<>>
    /\ isTyping = FALSE

Retries(h) == Cardinality({i \in 1..Len(h) : h[i].action \in {"LEFT", "UP"}})

\* A swipe in a run of at most MaxSwipes swipes, at most MaxRetries of them LEFT or UP.
LongSwipe(dir) ==
    /\ Len(sessionHistory) < MaxSwipes
    /\ dir \in {"LEFT", "UP"} => Retries(sessionHistory) < MaxRetries
    /\ SwipeStep(dir)

NextLong == \E dir \in {"LEFT", "RIGHT", "UP"} : LongSwipe(dir)

LongSpec == InitLong /\ [][NextLong]_vars

\* ================================================================== claims
CountId(q, id) == Cardinality({i \in 1..Len(q) : q[i].id = id})
Retry(card) == [card EXCEPT !.isRetry = TRUE]

\* C1: a swipe RIGHT on a non-empty queue shortens the queue by exactly one and adds one
\* to correct-count; a swipe LEFT or UP keeps the queue length and correct-count (the
\* front card leaves the front and one retry copy of it is in the queue); a swipe on an
\* empty queue leaves the session, its persisted record and the store as they were.
C1_SwipeCounts ==
    [][last'.op = "swipe" =>
        IF studyQueue = <<>>
        THEN UNCHANGED <<sessionVars, localSession, storeVars, navVars>>
        ELSE IF last'.dir = "RIGHT"
        THEN /\ Len(studyQueue') = Len(studyQueue) - 1
             /\ studyQueue' = Tail(studyQueue)
             /\ correctCount' = correctCount + 1
        ELSE /\ Len(studyQueue') = Len(studyQueue)
             /\ correctCount' = correctCount
             /\ \E i \in 1..Len(studyQueue') :
                   /\ studyQueue'[i] = Retry(studyQueue[1])
                   /\ RemoveAt(studyQueue', i) = Tail(studyQueue)]_vars

C1_Witness ==
    /\ last.op = "swipe" /\ last.dir = "RIGHT" /\ ~last.empty
    /\ correctCount = 1
    /\ Len(sessionHistory) = 2 /\ sessionHistory[1].action = "LEFT"

\* C2: undo is a true inverse of swipe: n swipes followed by n undos, nothing else in
\* between, bring queue, transcript and correct-count back to their values before the
\* swipes (each undo that answers a swipe restores the state before that swipe); undo
\* with an empty transcript changes nothing.
C2_UndoInvertsSwipe ==
    [][last'.op = "undo" =>
        /\ trail # <<>> =>
              [queue |-> studyQueue', history |-> sessionHistory', correctCount |-> correctCount']
                  = trail[Len(trail)]
        /\ sessionHistory = <<>> => UNCHANGED <<sessionVars, localSession, storeVars, navVars>>]_vars

\* C8: a session started with no persisted record for the deck holds, with no selection,
\* every card of the deck exactly once, and with a selection exactly the deck's cards
\* whose ids are selected, each once; correct-count is 0, the transcript is empty and
\* total-session-card-count is the queue length.
C8_FreshStart ==
    [][(last'.op = "startStudy" /\ localSession[activeDeckId] = Undefined /\ activeDeck.cards # <<>>) =>
        LET cards == activeDeck.cards
            selected(c) == studyCardIds' = Undefined \/ c.id \in studyCardIds'.ids
        IN /\ \A i \in 1..Len(cards) :
                 CountId(studyQueue', cards[i].id) = IF selected(cards[i]) THEN 1 ELSE 0
           /\ Range(studyQueue') \subseteq Range(cards)
           /\ correctCount' = 0
           /\ sessionHistory' = <<>>
           /\ totalSessionCards' = Len(studyQueue')]_vars

C8_Witness ==
    /\ last.op = "startStudy" /\ ~last.persisted
    /\ studyCardIds # Undefined
    /\ Len(studyQueue) = 2 /\ totalSessionCards = 2

\* The states of the worked example: after the swipe LEFT on A, and after the swipe UP
\* on B that follows it.
AfterLeftOnA ==
    /\ last.op = "swipe" /\ last.dir = "LEFT" /\ ~last.empty
    /\ ~isShuffle
    /\ trail # <<>>
    /\ trail[Len(trail)].queue = ExampleDeck.cards

AfterLeftOnAThenUpOnB ==
    /\ last.op = "swipe" /\ last.dir = "UP" /\ ~last.empty
    /\ ~isShuffle
    /\ Len(trail) >= 2
    /\ trail[Len(trail) - 1].queue = ExampleDeck.cards
    /\ trail[Len(trail)].history =
          Append(trail[Len(trail) - 1].history,
                 [card |-> ExampleDeck.cards[1], action |-> "LEFT", insertedAt |-> 4])

ExampleAfterLeft ==
    <<Card(2, 2), Card(3, 3), Card(4, 4), Card(5, 5), Retry(Card(1, 1))>>

\* C9: from the queue [A,B,C,D,E] with shuffle off, swipe(LEFT) on A gives
\* [B,C,D,E,A(retry)], inserted at min(4, 5..15) = 4; the following swipe(UP) on B
\* inserts retry-B at min(4, 20) = 4 and gives [C,D,E,A(retry),B(retry)].
C9_ExampleAmended ==
    /\ AfterLeftOnA =>
          /\ studyQueue = ExampleAfterLeft
          /\ sessionHistory[Len(sessionHistory)].insertedAt = 4
    /\ AfterLeftOnAThenUpOnB =>
          /\ sessionHistory[Len(sessionHistory)].insertedAt = 4
          /\ studyQueue = <<Card(3, 3), Card(4, 4), Card(5, 5), Retry(Card(1, 1)), Retry(Card(2, 2))>>

\* C9 as the spec states it: retry-B goes to position min(3, 20) = 3 and the queue is
\* [C,D,E,B(retry)].
C9_ExampleAsStated ==
    /\ AfterLeftOnA => studyQueue = ExampleAfterLeft
    /\ AfterLeftOnAThenUpOnB =>
          /\ sessionHistory[Len(sessionHistory)].insertedAt = 3
          /\ studyQueue = <<Card(3, 3), Card(4, 4), Card(5, 5), Retry(Card(2, 2))>>

C9_Witness == AfterLeftOnAThenUpOnB

\* -------------------------------------------------------- claims on the store
\* A step in which a pending file read completed.
ImportCompleted == last'.op = "import" /\ Len(pending') < Len(pending)

IsPrefix(s, t) == Len(s) <= Len(t) /\ SubSeq(t, 1, Len(s)) = s

\* after is before with exactly the incoming records of absent ids appended, each id once.
OnlyAppended(before, after, incoming) ==
    /\ IsPrefix(before, after)
    /\ \A k \in (Len(before) + 1)..Len(after) :
          after[k] \in Range(incoming) /\ after[k].id \notin Ids(before)
    /\ \A r \in Range(incoming) : CountId(after, r.id) = IF r.id \in Ids(before) THEN CountId(before, r.id) ELSE 1

\* C3: a completed merge changes decks, folders and history only by appending the
\* incoming records whose ids were absent: every record the store held before the merge
\* is still there, unchanged and in the same order, and each absent incoming id appears
\* exactly once, also when the file repeats it.
C3_MergeOnlyAppends ==
    [][(ImportCompleted /\ last'.outcome \in {"merged", "restored"}) =>
        /\ OnlyAppended(decks, decks', last'.data.decks)
        /\ OnlyAppended(folders, folders', last'.data.folders)
        /\ OnlyAppended(history, history', last'.data.history)]_vars

\* C4: a full-profile file imported a second time, directly after its first import,
\* leaves decks, folders and history as the first import left them.
C4_ReimportChangesNothing ==
    [][(ImportCompleted /\ last'.again /\ IsFullProfile(last'.data)) =>
        /\ decks' = decks
        /\ folders' = folders
        /\ history' = history]_vars

C4_Witness ==
    /\ last.op = "import" /\ last.again /\ last.outcome = "merged"
    /\ last.data = FullBackup
    /\ Ids(decks) = {"d1", "d2", "d3"}
    /\ Ids(folders) = {"f1", "f2"}
    /\ Ids(history) = {"h1", "h2"}

\* The last record of id in the list.
LastWithId(s, id) == s[CHOOSE i \in 1..Len(s) : s[i].id = id /\ \A j \in (i + 1)..Len(s) : s[j].id # id]

IndexOfId(s, id) == CHOOSE i \in 1..Len(s) : s[i].id = id

\* C5: after a completed merge the course collection holds, for every course id the merge
\* was given, exactly one course, and it equals the incoming record in every field; a
\* course whose id the store did not hold stands behind the courses the store held; so
\* of two imports with different versions of a course the later one's version stays.
C5_IncomingCourseReplaces ==
    [][(ImportCompleted /\ last'.outcome \in {"merged", "restored"}) =>
        \A c \in Range(last'.newCourses) :
            /\ CountId(courses', c.id) = 1
            /\ courses'[IndexOfId(courses', c.id)] = LastWithId(last'.newCourses, c.id)
            /\ c.id \notin Ids(courses) =>
                  \A k \in 1..Len(courses') :
                      courses'[k].id \in Ids(courses) => k < IndexOfId(courses', c.id)]_vars

C5_Witness ==
    /\ last.op = "import" /\ last.outcome = "merged" /\ last.data = LaterBackup
    /\ Ids(courses) = {"c1", "c2", "c3"}
    /\ courses[1] = LaterBackup.courses[1]
    /\ courses[1] # FullBackup.courses[1]
    /\ courses[3] = FullBackup.courses[3]

\* C6: deleting a deck removes it from the decks and its id from the deckIds of every
\* course and folder; the other decks, the other deckIds entries and their order and the
\* other course and folder fields stay; if it was the active deck, no deck is active and
\* the view is the dashboard afterwards.
C6_DeleteDeckPrunes ==
    [][(last'.op = "deleteDeck" /\ view = "deck-detail" /\ view' # view) =>
        LET id == last'.deckId
            other(d) == d.id # id
            otherId(d) == d # id
        IN /\ decks' = SelectSeq(decks, other)
           /\ id \notin Ids(decks')
           /\ Len(courses') = Len(courses)
           /\ \A i \in 1..Len(courses) :
                 courses'[i] = [courses[i] EXCEPT !.deckIds = SelectSeq(courses[i].deckIds, otherId)]
           /\ Len(folders') = Len(folders)
           /\ \A i \in 1..Len(folders) :
                 folders'[i] = [folders[i] EXCEPT !.deckIds = SelectSeq(folders[i].deckIds, otherId)]
           /\ activeDeckId = id => (activeDeckId' = NoId /\ view' = "dashboard")]_vars

C6_Witness ==
    /\ last.op = "deleteDeck" /\ last.deckId = "d1"
    /\ Ids(decks) = {"d2"}
    /\ courses[1].deckIds = <<"d2">> /\ courses[2].deckIds = <<"d2">>
    /\ folders[1].deckIds = <<"d2">>
    /\ activeDeckId = NoId /\ view = "dashboard"

\* The member ids the names of the form stand for.
AnnaMusterfrauId == <<"a", "n", "n", "a", "_", "m", "u", "s", "t", "e", "r", "f", "r", "a", "u">>
ExpectedMemberId(name) ==
    IF name \in {AnnaMusterfrau, Trim(AnnaSpaced)} THEN AnnaMusterfrauId ELSE <<"b">>

\* C7: adding a member puts into the course's memberIds the lowercased name with every
\* run of whitespace replaced by one underscore ("Anna Musterfrau" gives
\* "anna_musterfrau"), behind the ids already there and only if it is not there yet;
\* adding the same name again changes nothing; no other course changes.
C7_AddMemberId ==
    [][(last'.op = "addMember" /\ view = "course-detail") =>
        LET id == ExpectedMemberId(last'.name)
        IN /\ Len(courses') = Len(courses)
           /\ \A i \in 1..Len(courses) :
                 IF courses[i].id = last'.courseId
                 THEN courses'[i] =
                        [courses[i] EXCEPT !.memberIds =
                            IF id \in Range(@) THEN @ ELSE Append(@, id)]
                 ELSE courses'[i] = courses[i]
           /\ HandleAddMemberToCourse(courses', last'.courseId, last'.name) = courses']_vars

C7_Witness ==
    /\ last.op = "addMember" /\ last.name = AnnaMusterfrau /\ last.courseId = "c1"
    /\ courses[1].memberIds = <<AnnaMusterfrauId>>
    /\ courses[2].memberIds = <<<<"b">>, AnnaMusterfrauId>>

\* No deckIds entry of a course or folder names a deck the store does not hold.
NoDangling ==
    /\ \A i \in 1..Len(courses) : Range(courses[i].deckIds) \subseteq Ids(decks)
    /\ \A i \in 1..Len(folders) : Range(folders[i].deckIds) \subseteq Ids(decks)

\* C10: after every completed delete-deck, full-profile import or shared-course import
\* every deck id in the deckIds of a course or folder is the id of a deck in the store.
C10_NoDanglingDeckIds ==
    (\/ last.op = "deleteDeck"
     \/ last.op = "import" /\ last.outcome \in {"merged", "restored"}) => NoDangling

\* No two records of the collection share an id.
NoRepeatedId(s) == \A i, j \in 1..Len(s) : s[i].id = s[j].id => i = j

\* C11: in every reachable state of the store no two decks, no two courses, no two
\* folders and no two history entries share an id, whatever the order in which the
\* file reads and deck generations complete.
C11_UniqueIds ==
    /\ NoRepeatedId(decks)
    /\ NoRepeatedId(courses)
    /\ NoRepeatedId(folders)
    /\ NoRepeatedId(history)

\* A step in which a profile import, a deck import or a deck creation completed and
\* changed the store.
StoreOperationCompleted ==
    /\ Len(pending') < Len(pending)
    /\ \/ last'.op = "import" /\ last'.outcome \in {"merged", "restored"}
       \/ last'.op \in {"importDeck", "createDeck"}

\* The ids of the decks the operation that completed brought.
ContributedDeckIds(l) == IF l.op = "import" THEN Ids(l.data.decks) ELSE {l.deck.id}

\* C18: no store update is lost when operations overlap: an import or deck creation
\* that completes keeps every deck the store held just before (the local decks and what
\* operations completed earlier brought) and adds the decks it brings itself, so after
\* both of two overlapping operations the decks hold all of them.
C18_NoLostDeck ==
    [][StoreOperationCompleted =>
        /\ Ids(decks) \subseteq Ids(decks')
        /\ ContributedDeckIds(last') \subseteq Ids(decks')]_vars

\* C12: a session torn down without an explicit exit at any point, the finished state
\* with an empty queue included, and started again for the same deck has the queue,
\* transcript, correct-count and total-session-card-count it had just before the
\* teardown: while the session is mounted the persisted record holds its current values,
\* and a session started on a persisted record takes all four from it.
C12_ResumeAfterTeardown ==
    [][/\ SessionMounted =>
            localSession[activeDeckId] =
                SessionRecord(activeDeckId, studyQueue, sessionHistory, correctCount, totalSessionCards)
       /\ (last'.op = "startStudy" /\ last'.persisted) =>
            LET saved == localSession[activeDeckId]
            IN /\ studyQueue' = saved.queue
               /\ sessionHistory' = saved.history
               /\ correctCount' = saved.correctCount
               /\ totalSessionCards' = saved.totalSessionCards]_vars

\* C13: an explicit exit leaves no persisted record for the deck, whatever state the
\* session was in, and the session started next for that deck has a freshly built queue
\* (the deck's cards, or the selected ones, each once), an empty transcript and
\* correct-count 0.
C13_ExitClearsSession ==
    [][/\ last'.op = "exit" =>
            /\ localSession'[activeDeckId] = Undefined
            /\ view' # "study"
       /\ (last.op = "exit" /\ last'.op = "startStudy") =>
            LET cards == activeDeck.cards
                selected(c) == studyCardIds' = Undefined \/ c.id \in studyCardIds'.ids
            IN /\ \A i \in 1..Len(cards) :
                     CountId(studyQueue', cards[i].id) = IF selected(cards[i]) THEN 1 ELSE 0
               /\ Len(studyQueue') = Cardinality({i \in 1..Len(cards) : selected(cards[i])})
               /\ sessionHistory' = <<>>
               /\ correctCount' = 0]_vars

C13_Witness ==
    /\ last.op = "startStudy" /\ ~last.persisted
    /\ mounts = 2
    /\ Len(studyQueue) = NumCards
    /\ sessionHistory = <<>> /\ correctCount = 0

\* The two shapes the import accepts, read off the parsed file.
FullProfileShape(d) == {"user", "decks"} \subseteq d.fields /\ "type" \notin d.fields
CourseShareShape(d) == {"type", "course", "decks"} \subseteq d.fields /\ d.type = "course_share"

\* C14: a parsed file that has neither the full-profile shape nor the shared-course
\* shape is rejected as invalid and decks, courses, folders, history and the active user
\* stay; a full-profile file is handled by the profile branch only (all its courses go to
\* the merge) and a shared-course file by the course branch only (its one course goes to
\* the merge, the active user stays).
C14_ShapeDecidesBranch ==
    [][(ImportCompleted /\ last'.data.parses) =>
        LET d == last'.data
        IN /\ (~FullProfileShape(d) /\ ~CourseShareShape(d)) =>
                 /\ last'.outcome = "invalid"
                 /\ UNCHANGED storeVars
           /\ FullProfileShape(d) =>
                 /\ last'.outcome \in {"cancelled", "merged", "restored", "error"}
                 /\ last'.outcome \in {"merged", "restored"} => last'.newCourses = d.courses
           /\ CourseShareShape(d) =>
                 /\ last'.outcome \in {"cancelled", "merged"}
                 /\ currentUser' = currentUser
                 /\ last'.outcome = "merged" =>
                       /\ Len(last'.newCourses) = 1
                       /\ last'.newCourses[1].id = d.course.id]_vars

C14_Witness ==
    /\ last.op = "import" /\ last.data = TypedBackup /\ last.outcome = "invalid"
    /\ imports = 1
    /\ decks = LocalDecks /\ courses = LocalCourses /\ folders = LocalFolders /\ history = LocalHistory

\* C15: an import that ends with an error notice leaves decks, courses, folders and
\* history as they were before it: no collection is partially merged.
C15_ErrorLeavesStore ==
    [][(ImportCompleted /\ last'.outcome = "error") =>
        UNCHANGED <<decks, courses, folders, history>>]_vars

\* C16: a shared course imported by an active user who is neither its author nor in
\* its memberIds is stored with the user's id in memberIds exactly once, behind the
\* file's members; imported by its author or by a member it is stored with the file's
\* memberIds.
C16_ImporterJoinsCourse ==
    [][(ImportCompleted /\ last'.outcome = "merged" /\ CourseShareShape(last'.data)
            /\ last'.by # Undefined) =>
        LET shared == last'.data.course
            user == last'.by
            stored == courses'[IndexOfId(courses', shared.id)]
            count(u, c) == Cardinality({k \in 1..Len(c.memberIds) : c.memberIds[k] = u})
        IN /\ CountId(courses', shared.id) = 1
           /\ IF shared.authorId # user.id /\ user.id \notin Range(shared.memberIds)
              THEN /\ count(user.id, stored) = 1
                   /\ stored.memberIds = Append(shared.memberIds, user.id)
              ELSE stored.memberIds = shared.memberIds]_vars

C16_Witness ==
    /\ last.op = "import" /\ last.outcome = "merged" /\ last.data = SharedCourse
    /\ currentUser = U1
    /\ Ids(courses) = {"c1", "c2", "c4"}
    /\ courses[3].memberIds = <<U1.id>>

\* The status a swipe stands for.
StatusOf(dir) == IF dir = "RIGHT" THEN "known" ELSE IF dir = "LEFT" THEN "unknown" ELSE "half-known"

\* C17: each swipe in a study session sets the status of the swiped card in its deck
\* in the store: RIGHT to 'known', LEFT to 'unknown', UP to 'half-known'; the status of
\* every other card stays.
C17_SwipeSetsStatus ==
    [][(last'.op = "swipe" /\ studyQueue # <<>>) =>
        /\ Len(decks') = Len(decks)
        /\ \A k \in 1..Len(decks) :
              /\ Len(decks'[k].cards) = Len(decks[k].cards)
              /\ \A i \in 1..Len(decks[k].cards) :
                    decks'[k].cards[i].status =
                        IF decks[k].id = activeDeckId /\ decks[k].cards[i].id = studyQueue[1].id
                        THEN StatusOf(last'.dir)
                        ELSE decks[k].cards[i].status]_vars

\* C19: a swipe LEFT takes the current card off the front and puts a copy with isRetry
\* set at index min(n, 5 + r) of the remaining queue, n its length and r in 0..10; a
\* swipe UP puts the copy at index min(n, 20); the other cards keep their order; the
\* transcript gains the entry of the card as it was, the direction and that index as
\* insertedAt, which is undefined for RIGHT.
C19_RetryInsertIndex ==
    [][(last'.op = "swipe" /\ studyQueue # <<>>) =>
        LET n == Len(studyQueue) - 1
            entry == sessionHistory'[Len(sessionHistory')]
            at == entry.insertedAt
        IN /\ sessionHistory' = Append(sessionHistory, entry)
           /\ entry.card = studyQueue[1]
           /\ entry.action = last'.dir
           /\ last'.dir = "LEFT" => \E r \in 0..10 : at = IF n < 5 + r THEN n ELSE 5 + r
           /\ last'.dir = "UP" => at = IF n < 20 THEN n ELSE 20
           /\ last'.dir \in {"LEFT", "UP"} =>
                 /\ studyQueue'[at + 1] = Retry(studyQueue[1])
                 /\ RemoveAt(studyQueue', at + 1) = Tail(studyQueue)
           /\ last'.dir = "RIGHT" => (at = NoIndex /\ studyQueue' = Tail(studyQueue))]_vars

C19_Witness ==
    /\ Len(sessionHistory) = 2
    /\ sessionHistory[1].action = "UP" /\ sessionHistory[1].insertedAt = 20
    /\ sessionHistory[2].action = "LEFT" /\ sessionHistory[2].insertedAt = 9
    /\ Len(studyQueue) = LongCards
    /\ studyQueue[10] = Retry(LongDeck.cards[2])
    /\ studyQueue[21] = Retry(LongDeck.cards[1])
    /\ studyQueue[22] = LongDeck.cards[LongCards]

\* Transcript arithmetic for a run of swipes only: the length of the remaining queue at
\* the j-th swipe, the LEFT swipes after it, and whether its card has been the current
\* card again since.
RemainingAt(h, j) ==
    totalSessionCards - Cardinality({i \in 1..(j - 1) : h[i].action = "RIGHT"}) - 1
LeftsAfter(h, j) == Cardinality({i \in (j + 1)..Len(h) : h[i].action = "LEFT"})
CurrentAgain(h, j) ==
    \/ studyQueue # <<>> /\ studyQueue[1].id = h[j].card.id
    \/ \E i \in (j + 1)..Len(h) : h[i].card.id = h[j].card.id

\* C20: a card swiped LEFT while at least 15 other cards remain is the current card
\* again after at least 5 further swipes, and after at most 15 further swipes plus one
\* for every swipe LEFT among them; with only RIGHT and UP swipes after it, it is the
\* current card after exactly insertedAt further swipes, insertedAt in 5..15.
C20_ResurfacesAmended ==
    \A j \in 1..Len(sessionHistory) :
        (sessionHistory[j].action = "LEFT" /\ RemainingAt(sessionHistory, j) >= 15) =>
            LET further == Len(sessionHistory) - j
                at == sessionHistory[j].insertedAt
            IN /\ at \in 5..15
               /\ further < 5 => ~CurrentAgain(sessionHistory, j)
               /\ further >= 15 + LeftsAfter(sessionHistory, j) => CurrentAgain(sessionHistory, j)
               /\ LeftsAfter(sessionHistory, j) = 0 =>
                     /\ further < at => ~CurrentAgain(sessionHistory, j)
                     /\ further = at => studyQueue[1] = Retry(sessionHistory[j].card)

\* C20 as the spec states it: the card is the current card again after at least 5 and at
\* most 15 further swipes, whatever their directions.
C20_ResurfacesAsStated ==
    \A j \in 1..Len(sessionHistory) :
        (sessionHistory[j].action = "LEFT" /\ RemainingAt(sessionHistory, j) >= 15) =>
            LET further == Len(sessionHistory) - j
            IN /\ further < 5 => ~CurrentAgain(sessionHistory, j)
               /\ further >= 15 => CurrentAgain(sessionHistory, j)

C20_Witness ==
    /\ Len(sessionHistory) = 17
    /\ sessionHistory[1].action = "LEFT" /\ sessionHistory[1].insertedAt = 15
    /\ LeftsAfter(sessionHistory, 1) = 1
    /\ \A i \in 2..17 : sessionHistory[i].card.id # sessionHistory[1].card.id
    /\ studyQueue[1] = Retry(sessionHistory[1].card)

\* ------------------------------------------- claims on the session's controls
CountCard(q, c) == Cardinality({i \in 1..Len(q) : q[i] = c})
DeckIndex(deck, id) == FindIndexById(deck.cards, id)

\* C21: restart sets the queue to exactly the original card set of the session (the
\* selected cards of the deck, or the whole deck when nothing is selected), each card
\* once and in deck order when the shuffle flag is off, empties the transcript, sets
\* correct-count to 0 and leaves total-session-card-count and the shuffle flag as they were.
C21_RestartResets ==
    [][last'.op = "restart" =>
        LET cards == activeDeck.cards
            selected(c) == studyCardIds = Undefined \/ c.id \in studyCardIds.ids
        IN /\ \A i \in 1..Len(cards) :
                 CountId(studyQueue', cards[i].id) = IF selected(cards[i]) THEN 1 ELSE 0
           /\ Range(studyQueue') \subseteq Range(cards)
           /\ ~isShuffle =>
                 \A i, j \in 1..Len(studyQueue') :
                    i < j => DeckIndex(activeDeck, studyQueue'[i].id) < DeckIndex(activeDeck, studyQueue'[j].id)
           /\ sessionHistory' = <<>>
           /\ correctCount' = 0
           /\ UNCHANGED <<totalSessionCards, isShuffle>>]_vars

C21_Witness ==
    /\ last.op = "restart"
    /\ ~isShuffle
    /\ studyCardIds # Undefined
    /\ Len(studyQueue) = 2
    /\ totalSessionCards = 2
    /\ mounts = 2

\* C22: a shuffle toggle flips the flag, keeps the card at position 0 where it is, keeps
\* the multiset of queued cards, the transcript and correct-count; when the flag is turned
\* off, positions 1.. are in ascending order of term; a queue of length 0 or 1 is unchanged.
C22_ToggleKeepsActiveCard ==
    [][last'.op = "toggleShuffle" =>
        /\ isShuffle' = ~isShuffle
        /\ UNCHANGED <<sessionHistory, correctCount, totalSessionCards>>
        /\ Len(studyQueue') = Len(studyQueue)
        /\ Len(studyQueue) <= 1 => studyQueue' = studyQueue
        /\ Len(studyQueue) >= 1 => studyQueue'[1] = studyQueue[1]
        /\ \A c \in Range(studyQueue) \cup Range(studyQueue') :
              CountCard(studyQueue', c) = CountCard(studyQueue, c)
        /\ ~isShuffle' =>
              \A i, j \in 2..Len(studyQueue') : i < j => studyQueue'[i].term <= studyQueue'[j].term]_vars

C22_Witness ==
    /\ last.op = "toggleShuffle"
    /\ ~isShuffle
    /\ Len(studyQueue) = 3
    /\ studyQueue[1].term > studyQueue[2].term
    /\ studyQueue[2].term < studyQueue[3].term
    /\ Len(sessionHistory) = 1

\* The card of that id in the deck under study.
DeckCard(ds, deckId, id) ==
    LET d == ds[FindIndexById(ds, deckId)] IN d.cards[FindIndexById(d.cards, id)]

\* C23: a mid-session edit with a non-empty queue sets term and definition of the card
\* at queue position 0 and of the deck's card of the same id to the edited values; the
\* deck's card changes in term and definition only (status kept, no isRetry flag written
\* into the deck); no other queue position, no other deck card, neither the transcript
\* nor correct-count changes.
C23_EditWritesTermAndDefinition ==
    [][last'.op = "saveEdit" =>
        LET id == studyQueue[1].id
            before == DeckCard(decks, activeDeckId, id)
            after == DeckCard(decks', activeDeckId, id)
        IN /\ studyQueue'[1] = [studyQueue[1] EXCEPT !.term = last'.term, !.definition = last'.definition]
           /\ Len(studyQueue') = Len(studyQueue)
           /\ \A i \in 2..Len(studyQueue) : studyQueue'[i] = studyQueue[i]
           /\ after = [before EXCEPT !.term = last'.term, !.definition = last'.definition]
           /\ Len(decks') = Len(decks)
           /\ \A k \in 1..Len(decks) :
                 /\ [decks'[k] EXCEPT !.cards = <<>>] = [decks[k] EXCEPT !.cards = <<>>]
                 /\ Len(decks'[k].cards) = Len(decks[k].cards)
                 /\ \A i \in 1..Len(decks[k].cards) :
                       decks[k].cards[i].id # id => decks'[k].cards[i] = decks[k].cards[i]
           /\ UNCHANGED <<sessionHistory, correctCount>>]_vars

\* No RIGHT swipe is in the transcript and none was counted.
NoRightSwipe == correctCount = 0 /\ \A i \in 1..Len(sessionHistory) : sessionHistory[i].action # "RIGHT"

C26_CardConservation ==
    SessionMounted => correctCount + Len(studyQueue) = totalSessionCards

\* A persisted record is used as a whole or not at all.
AllOrNothingResume ==
    [][last'.op = "startStudy" =>
        LET saved == localSession[activeDeckId] IN
            \/ /\ saved # Undefined
               /\ studyQueue' = saved.queue
               /\ sessionHistory' = saved.history
               /\ correctCount' = saved.correctCount
            \/ /\ sessionHistory' = <<>>
               /\ correctCount' = 0]_vars

\* C27: in every state of a mounted session the queue holds each card id at most once; a
\* session started from a persisted record takes queue, transcript and correct-count all
\* from the record or initialises all of them afresh.
C27_UniqueCardsInQueue ==
    /\ [](SessionMounted => \A i, j \in 1..Len(studyQueue) : studyQueue[i].id = studyQueue[j].id => i = j)
    /\ AllOrNothingResume

\* C28: in every state of a mounted session every queued card has the term and the
\* definition that the card of the same id has in the deck, after any sequence of swipe,
\* undo, mid-session edit, shuffle toggle and restart.
C28_QueueShowsDeckText ==
    SessionMounted =>
        \A i \in 1..Len(studyQueue) :
            LET c == DeckCard(decks, activeDeckId, studyQueue[i].id)
            IN studyQueue[i].term = c.term /\ studyQueue[i].definition = c.definition

\* The requests of a kind that are in flight for a control that is still on screen.
InFlight(kind) ==
    {i \in 1..Len(pending) :
        /\ pending[i].kind = kind
        /\ kind = "generate" => pending[i].live}

\* C25: at most one generation request and at most one chat request is in flight at any
\* time for the control that started it: no click and no Enter key starts a second one
\* while one is pending, and the control is enabled again (isGenerating, isTyping false)
\* once none is pending.
C25_OneRequestPerControl ==
    /\ Cardinality(InFlight("generate")) <= 1
    /\ Cardinality(InFlight("chat")) <= 1
    /\ isGenerating <=> InFlight("generate") # {}
    /\ isTyping <=> InFlight("chat") # {}

\* C29: a person who was added to a course by a display name observes that course after
\* logging in under the same name: the user id that login derives from the name is the
\* member id that addMember derived from it, so every course whose memberIds holds that
\* member id is among the user's courses.
C29_MemberObservesCourse ==
    (last.op = "login" /\ last.loginIdentifier \in DisplayNames) =>
        \A i \in 1..Len(courses) :
            MemberIdOf(Trim(last.loginIdentifier)) \in Range(courses[i].memberIds) =>
                /\ currentUser.id = MemberIdOf(Trim(last.loginIdentifier))
                /\ currentUser.id \in Range(courses[i].memberIds)
                /\ courses[i] \in Range(userCourses)

\* C30: after an active user who is not the course's author has imported a shared-course
\* bundle, the user observes the course, and every deck of the bundle is observable by
\* the user: it is among the user's decks (so it can be opened and studied) and, when the
\* course lists it, among the decks shown for the course.
C30_SharedDecksObservable ==
    [][(ImportCompleted /\ last'.outcome = "merged" /\ CourseShareShape(last'.data)
            /\ last'.by # Undefined /\ currentUser' = last'.by
            /\ last'.data.course.authorId # last'.by.id) =>
        LET shared == last'.data.course
            bundle == last'.data.decks
            stored == courses'[IndexOfId(courses', shared.id)]
        IN /\ shared.id \in Ids(userCourses')
           /\ \A k \in 1..Len(bundle) :
                 /\ bundle[k].id \in Ids(userDecks')
                 /\ bundle[k].id \in Range(shared.deckIds) =>
                       bundle[k].id \in Ids(courseDecks(userDecks', stored))]_vars

====
